---- MODULE Spec2Model ----
(***************************************************************************)
(* State-machine model of evaluation/trecvid11_evaluation.py               *)
(* (class TrecVid11Evaluation): construction, fit / score / predict and    *)
(* the two cross-validated searches for the regularisation constant C.     *)
(*                                                                         *)
(* Conventions                                                             *)
(*  - Samples are numbered 1..n (numpy's 0..n-1 shifted by one); class     *)
(*    labels keep their values, so the loop variable ii is both the 0-based*)
(*    position in the bank and the class label, and clf[ii] is clf[ii+1].  *)
(*  - A boolean numpy mask is a sequence of BOOLEAN.                       *)
(*  - C is stored in ninths: the candidate 3^log3c is held as 3^(log3c+2), *)
(*    so that 3^-2 and 3^-1 stay integers; best_C = 0 stays 0.             *)
(*  - The SVM, its score and the average precision are collaborators: a    *)
(*    classifier records what it was last fitted on; a held-out score is   *)
(*    an input drawn from a small ordered set.                             *)
(*  - The order of rows inside cv_idxs / tr_idxs is dropped (they are kept *)
(*    as sets); the permutation that produces them is enumerated.          *)
(***************************************************************************)
EXTENDS Integers, Sequences, FiniteSets, TLC

VARIABLES
    pc,             \* control position of the program
    scenario,       \* self.scenario
    null_class_idx, \* self.null_class_idx
    attrs,          \* names of the attributes fit has assigned so far
    nr_classes,     \* self.nr_classes
    clf,            \* self.clf : the bank (a single SVC is a bank of one)
    cx_idxs,        \* self.cx_idxs : stored masks (a single mask is a list of one)
    call,           \* locals of the running fit
    cv,             \* locals of the running cross-validation
    ret,            \* outcome of the last call that ended
    hist            \* history: what the last fit and the last search were given

vars == <<pc, scenario, null_class_idx, attrs, nr_classes, clf, cx_idxs,
          call, cv, ret, hist>>

----------------------------------------------------------------------------
(* Bounds of the model *)

MaxN == 2
MaxTest == 2
MaxCc == 3
MaxSlice == 5

(* Program constants *)

NullClassIdx == 15
pp_num == 3
pp_den == 10
log3c_first == -2
log3c_stop == 8

----------------------------------------------------------------------------
(* Helpers *)

Range(s) == {s[i] : i \in DOMAIN s}

SeqsUpTo(S, n) == UNION {[1..k -> S] : k \in 0..n}

\* numpy.random.permutation(idxs)[:k] as a set: any k of the indices
Perms(S, k) == {T \in SUBSET S : Cardinality(T) = k}

RECURSIVE SortedSeq(_)
SortedSeq(S) ==
    IF S = {} THEN <<>>
    ELSE LET m == CHOOSE x \in S : \A y \in S : x <= y
         IN <<m>> \o SortedSeq(S \ {m})

\* numpy: the positions a boolean mask selects, in increasing order
nonzero(mask) == {i \in DOMAIN mask : mask[i]}

\* numpy: a[mask] for a sequence a
Take(a, mask) == [j \in 1..Cardinality(nonzero(mask)) |-> a[SortedSeq(nonzero(mask))[j]]]

CountOf(a, v) == Cardinality({i \in DOMAIN a : a[i] = v})

\* numpy.ceil(pp * n) with pp = 0.3 (exact for every n a model reaches)
CeilPP(n) == (pp_num * n + pp_den - 1) \div pp_den

\* 3 ** log3c, in ninths
CNinths(log3c) == 3 ^ (log3c + 2)

NegInf == -1

----------------------------------------------------------------------------
(* Collaborator: sklearn.svm.SVC, reduced to what the evaluator can observe *)

NoFn == <<>>

\* svm.SVC(kernel='precomputed', probability=prob): C defaults to 1.0
NewSVC(prob) ==
    [probability |-> prob, C |-> CNinths(0), fitted |-> FALSE,
     X |-> {}, y |-> NoFn, weighted |-> FALSE, sample_weight |-> NoFn]

\* c.fit(K[X, X], y, sample_weight=w): X a set of sample numbers
SVCFit(c, X, y, weighted, w) ==
    [c EXCEPT !.fitted = TRUE, !.X = X, !.y = y,
              !.weighted = weighted, !.sample_weight = w]

----------------------------------------------------------------------------
(* Frames *)

NoCall == [cx |-> <<>>, ii |-> 0, nr_null_samples |-> 0, good_idxs |-> <<>>]

NoCv == [routine |-> "none", caller |-> "none", idx_clf |-> 0, cc |-> <<>>,
         rows |-> <<>>, cv_idxs |-> {}, tr_idxs |-> {}, log3c |-> log3c_first,
         best_score |-> NegInf, best_C |-> 0]

NoRet == [op |-> "none", status |-> "none", msg |-> "", arg |-> <<>>, rows |-> <<>>,
          cols |-> <<>>, y_true |-> <<>>, n_pred |-> 0, C |-> 0]

\* history of the last fit (its labels, how many masks the evaluator held when it
\* was called, the C each of its searches returned) and of the last search (the
\* shape and labels it was given, the candidates tried, in order, for each score
\* seen the last candidate that got it, whether the best score was seen twice)
NoHist == [fit_cx |-> <<>>, refit |-> FALSE, prev_masks |-> 0, searched |-> <<>>,
           entered |-> FALSE, M |-> 0, N |-> 0, cc |-> <<>>,
           tried |-> <<>>, lastWithScore |-> {}, tie |-> FALSE]

Returned(op) == [NoRet EXCEPT !.op = op, !.status = "ok"]

Raised(op, kind, msg) == [NoRet EXCEPT !.op = op, !.status = kind, !.msg = msg]

Running(op) == [NoRet EXCEPT !.op = op, !.status = "running"]

----------------------------------------------------------------------------
(* Input domains *)

ScenarioNames == {"multiclass", "versus_null", "per_slice", "one_vs_all"}

TrainLabels == {0, 1, NullClassIdx}

TestLabels == {0, 1, NullClassIdx}

FitScores == {0, 1}

----------------------------------------------------------------------------
(* Initial states *)

\* before the constructor runs
Init ==
    /\ pc = "new"
    /\ scenario = "none"
    /\ null_class_idx = 0
    /\ attrs = {}
    /\ nr_classes = 0
    /\ clf = <<>>
    /\ cx_idxs = <<>>
    /\ call = NoCall
    /\ cv = NoCv
    /\ ret = NoRet
    /\ hist = NoHist

----------------------------------------------------------------------------
(* __init__ *)

SupportedByInit == {"multiclass", "versus_null"}

init(s) ==
    /\ pc = "new"
    /\ null_class_idx' = NullClassIdx
    /\ scenario' = s
    /\ IF s \in SupportedByInit
         THEN pc' = "idle" /\ ret' = Returned("__init__")
         ELSE pc' = "init_failed" /\ ret' = Raised("__init__", "AssertionError", "")
    /\ UNCHANGED <<attrs, nr_classes, clf, cx_idxs, call, cv, hist>>

----------------------------------------------------------------------------
(* The two searches for C *)

\* the rows of K that the local indices of a search stand for
Rows(loc, rows) == {rows[i] : i \in loc}

LocalOf(x, rows) == CHOOSE i \in DOMAIN rows : rows[i] = x

\* lines 173-174: positives of the training split weigh as many as it has negatives
SplitWeight(cc, tr_idxs) ==
    [i \in tr_idxs |->
        IF cc[i] = 1 THEN Cardinality({j \in tr_idxs : cc[j] = -1}) ELSE 1]

\* a slip that keeps the first of two equal candidates
KeepsFirst(score, best_score) == score > best_score

\* lines 178-180 and 249-251: the comparison that keeps a candidate
Keeps(score, best_score) == score >= best_score

\* one pass of the loop body on the search frame f, for candidate f.log3c
TryCandidate(f, score) ==
    [f EXCEPT !.log3c = f.log3c + 1,
              !.best_score = IF Keeps(score, f.best_score) THEN score ELSE f.best_score,
              !.best_C = IF Keeps(score, f.best_score) THEN CNinths(f.log3c) ELSE f.best_C]

Logged(h, score, log3c) ==
    LET seen == {p[1] : p \in h.lastWithScore}
    IN [h EXCEPT !.tried = Append(@, CNinths(log3c)),
                 !.lastWithScore = {p \in @ : p[1] # score} \cup {<<score, log3c>>},
                 !.tie = IF \A v \in seen : score > v THEN FALSE
                         ELSE IF \A v \in seen : score >= v THEN TRUE ELSE @]

Entered(h, M, N, cc) ==
    [h EXCEPT !.entered = TRUE, !.M = M, !.N = N, !.cc = cc,
              !.tried = <<>>, !.lastWithScore = {}, !.tie = FALSE]

\* a slip that rounds the held-out share down
HeldOutFloor(n) == (pp_num * n) \div pp_den

\* lines 152-155 (and 227-229): the number of permuted indices that go to the
\* cross-validation subset
HeldOut(n) == CeilPP(n)

\* the first P of the permuted indices are held out, the rest train
Split(idxs) == {[cvs |-> T, trs |-> idxs \ T] : T \in Perms(idxs, HeldOut(Cardinality(idxs)))}

NewSearch(routine, caller, idx_clf, cc, rows, cvs, trs) ==
    [NoCv EXCEPT !.routine = routine, !.caller = caller, !.idx_clf = idx_clf,
                 !.cc = cc, !.rows = rows, !.cv_idxs = cvs, !.tr_idxs = trs]

\* a slip that copies the check of the multiclass search
AtLeastTwoClasses(cc) == Cardinality(Range(cc)) >= 2

\* lines 143-145: assert nr_classes == 2
TwoClasses(cc) == Cardinality(Range(cc)) = 2

\* _crossvalidate_C_one_vs_rest, lines 140-170: the preconditions and the split
enter_one_vs_rest(op, caller, M, N, cc, idx_clf, rows) ==
    IF M # N
      THEN /\ pc' = "idle" /\ cv' = NoCv
           /\ ret' = Raised(op, "AssertionError", "K is not Gram matrix.")
    ELSE IF ~TwoClasses(cc)
      THEN /\ pc' = "idle" /\ cv' = NoCv
           /\ ret' = Raised(op, "AssertionError", "Number of classes is not two.")
    ELSE LET classes == SortedSeq(Range(cc))
              idxs_0 == {i \in DOMAIN cc : cc[i] = classes[1]}
              idxs_1 == {i \in DOMAIN cc : cc[i] = classes[2]}
         IN \E s0 \in Split(idxs_0), s1 \in Split(idxs_1) :
               /\ pc' = "cv_one_vs_rest"
               /\ cv' = NewSearch("one_vs_rest", caller, idx_clf, cc, rows,
                                  s0.cvs \cup s1.cvs, s0.trs \cup s1.trs)
               /\ ret' = Running(op)

\* _crossvalidate_C_one_vs_one, lines 219-244
enter_one_vs_one(op, caller, M, N, cc, rows) ==
    IF M # N
      THEN /\ pc' = "idle" /\ cv' = NoCv
           /\ ret' = Raised(op, "AssertionError", "K is not Gram matrix.")
    ELSE IF Cardinality(Range(cc)) < 2
      THEN /\ pc' = "idle" /\ cv' = NoCv
           /\ ret' = Raised(op, "AssertionError", "Number of classes is less than two.")
    ELSE \E s \in Split(1..N) :
           /\ pc' = "cv_one_vs_one"
           /\ cv' = NewSearch("one_vs_one", caller, 0, cc, rows, s.cvs, s.trs)
           /\ ret' = Running(op)

\* lines 171-180: one candidate of the binary search
try_one_vs_rest(score) ==
    /\ pc = "cv_one_vs_rest"
    /\ cv.log3c < log3c_stop
    /\ LET X == Rows(cv.tr_idxs, cv.rows)
           w == SplitWeight(cv.cc, cv.tr_idxs)
           c == [clf[cv.idx_clf + 1] EXCEPT !.C = CNinths(cv.log3c)]
       IN clf' = [clf EXCEPT ![cv.idx_clf + 1] =
                    SVCFit(c, X, [x \in X |-> cv.cc[LocalOf(x, cv.rows)]], TRUE,
                           [x \in X |-> w[LocalOf(x, cv.rows)]])]
    /\ cv' = TryCandidate(cv, score)
    /\ hist' = Logged(hist, score, cv.log3c)
    /\ UNCHANGED <<pc, scenario, null_class_idx, attrs, nr_classes, cx_idxs,
                   call, ret>>

\* lines 245-251: one candidate of the multiclass search
try_one_vs_one(score) ==
    /\ pc = "cv_one_vs_one"
    /\ cv.log3c < log3c_stop
    /\ LET X == Rows(cv.tr_idxs, cv.rows)
           c == [clf[1] EXCEPT !.C = CNinths(cv.log3c)]
       IN clf' = <<SVCFit(c, X, [x \in X |-> cv.cc[LocalOf(x, cv.rows)]], FALSE, NoFn)>>
    /\ cv' = TryCandidate(cv, score)
    /\ hist' = Logged(hist, score, cv.log3c)
    /\ UNCHANGED <<pc, scenario, null_class_idx, attrs, nr_classes, cx_idxs,
                   call, ret>>
----------------------------------------------------------------------------
(* fit *)

StartFit(cx) ==
    [NoHist EXCEPT !.fit_cx = cx, !.refit = ("clf" \in attrs),
                   !.prev_masks = Len(cx_idxs)]

\* lines 95-96: +1 for the class, -1 for the null class
Relabel(labels) ==
    [j \in DOMAIN labels |-> IF labels[j] # null_class_idx THEN 1 ELSE -1]

\* a slip that keeps appending to the list of the fit before
KeptList(held) == held

\* line 84: self.cx_idxs = [], whatever the attribute held
NewList(held) == <<>>

\* lines 82-87: _fit_one_vs_rest up to its loop
fit_one_vs_rest(cx) ==
    /\ nr_classes' = Cardinality(Range(cx))
    /\ clf' = <<>>
    /\ cx_idxs' = NewList(cx_idxs)
    /\ attrs' = attrs \cup {"nr_classes", "clf", "cx_idxs"}
    /\ call' = [NoCall EXCEPT !.cx = cx,
                              !.nr_null_samples = CountOf(cx, null_class_idx)]
    /\ pc' = "ovr_loop"
    /\ cv' = NoCv
    /\ ret' = Running("fit")
    /\ hist' = StartFit(cx)

\* lines 190-196: _fit_one_vs_one up to the candidates of its search
fit_one_vs_one(cx) ==
    LET good_idxs == [i \in DOMAIN cx |-> cx[i] # null_class_idx]
        N == Cardinality(nonzero(good_idxs))
    IN /\ clf' = <<NewSVC(FALSE)>>
       /\ attrs' = attrs \cup {"clf"}
       /\ enter_one_vs_one("fit", "fit", N, N, Take(cx, good_idxs),
                           SortedSeq(nonzero(good_idxs)))
       /\ call' = IF pc' = "idle" THEN NoCall
                  ELSE [NoCall EXCEPT !.cx = cx, !.good_idxs = good_idxs]
       /\ hist' = Entered(StartFit(cx), N, N, Take(cx, good_idxs))
       /\ UNCHANGED <<nr_classes, cx_idxs>>

\* lines 52-53: _fit_per_slice stops at np.arrange, which numpy does not have
fit_per_slice(cx) ==
    /\ clf' = <<>>
    /\ attrs' = attrs \cup {"clf"}
    /\ pc' = "idle"
    /\ ret' = Raised("fit", "AttributeError", "arrange")
    /\ hist' = StartFit(cx)
    /\ UNCHANGED <<nr_classes, cx_idxs, call, cv>>

\* lines 24-33
fit(cx) ==
    /\ pc = "idle"
    /\ CASE scenario = "multiclass" -> fit_one_vs_one(cx)
         [] scenario = "versus_null" -> fit_one_vs_rest(cx)
         [] scenario = "per_slice" -> fit_per_slice(cx)
         [] OTHER -> /\ pc' = "idle" /\ ret' = Returned("fit")
                     /\ hist' = StartFit(cx)
                     /\ UNCHANGED <<attrs, nr_classes, clf, cx_idxs, call, cv>>
    /\ UNCHANGED <<scenario, null_class_idx>>

\* a slip that numbers the classes from one
GoodIdxsFromOne(cx, ii) ==
    [i \in DOMAIN cx |-> cx[i] = ii + 1 \/ cx[i] = null_class_idx]

\* lines 91 and 122: the samples of class ii and of the null class
GoodIdxs(cx, ii) == [i \in DOMAIN cx |-> cx[i] = ii \/ cx[i] = null_class_idx]

\* lines 89-100: the head of the loop of _fit_one_vs_rest; the body up to the
\* candidates of the search, or the return of fit when the loop is over
fit_one_vs_rest_iter ==
    /\ pc = "ovr_loop"
    /\ IF call.ii >= nr_classes - 1
         THEN /\ pc' = "idle"
              /\ ret' = Returned("fit")
              /\ call' = NoCall
              /\ UNCHANGED <<clf, cx_idxs, cv, hist>>
         ELSE LET good_idxs == GoodIdxs(call.cx, call.ii)
                  cx_ == Relabel(Take(call.cx, good_idxs))
                  nr_ii == Len(cx_)
              IN /\ cx_idxs' = Append(cx_idxs, good_idxs)
                 /\ clf' = Append(clf, NewSVC(TRUE))
                 /\ enter_one_vs_rest("fit", "fit", nr_ii, nr_ii, cx_, call.ii,
                                      SortedSeq(nonzero(good_idxs)))
                 /\ call' = IF pc' = "idle" THEN NoCall
                            ELSE [call EXCEPT !.good_idxs = good_idxs]
                 /\ hist' = Entered(hist, nr_ii, nr_ii, cx_)
    /\ UNCHANGED <<scenario, null_class_idx, attrs, nr_classes>>

\* a slip that leaves the classifier with the C the search tried last
ChosenLastTried(f) == CNinths(f.log3c - 1)

\* lines 100-105 and 195: the C assigned before the last fit is the one the search
\* returned
Chosen(f) == f.best_C

\* lines 102-103: weight = np.ones(nr_ii); weight[cx_ == +1] *= nr_null_samples.
\* cx_ is a list (map), so cx_ == +1 is the one bool False, not a mask: a numpy
\* that reads a bool index as an integer scales weight[0], one that reads it as
\* a 0-d mask scales nothing.
FinalWeight(cx_, nr_null_samples, bool_is_int) ==
    [j \in DOMAIN cx_ |-> IF bool_is_int /\ j = 1 THEN nr_null_samples ELSE 1]

\* lines 100-107: the search returns; the weighted fit on the whole slice
finish_one_vs_rest ==
    /\ pc = "cv_one_vs_rest"
    /\ cv.log3c = log3c_stop
    /\ cv.caller = "fit"
    /\ \E bool_is_int \in BOOLEAN :
         LET X == nonzero(call.good_idxs)
             weight == FinalWeight(cv.cc, call.nr_null_samples, bool_is_int)
             c == [clf[call.ii + 1] EXCEPT !.C = Chosen(cv)]
         IN clf' = [clf EXCEPT ![call.ii + 1] =
                      SVCFit(c, X, [x \in X |-> cv.cc[LocalOf(x, cv.rows)]], TRUE,
                             [x \in X |-> weight[LocalOf(x, cv.rows)]])]
    /\ call' = [call EXCEPT !.ii = call.ii + 1]
    /\ pc' = "ovr_loop"
    /\ cv' = NoCv
    /\ hist' = [hist EXCEPT !.searched = Append(@, cv.best_C),
                            !.tried = <<>>, !.lastWithScore = {}, !.tie = FALSE]
    /\ UNCHANGED <<scenario, null_class_idx, attrs, nr_classes, cx_idxs, ret>>

\* lines 195-198: the search returns; the fit on the non-null slice; the mask
finish_one_vs_one ==
    /\ pc = "cv_one_vs_one"
    /\ cv.log3c = log3c_stop
    /\ cv.caller = "fit"
    /\ LET X == nonzero(call.good_idxs)
           c == [clf[1] EXCEPT !.C = Chosen(cv)]
       IN clf' = <<SVCFit(c, X, [x \in X |-> call.cx[x]], FALSE, NoFn)>>
    /\ cx_idxs' = <<call.good_idxs>>
    /\ attrs' = attrs \cup {"cx_idxs"}
    /\ pc' = "idle"
    /\ ret' = Returned("fit")
    /\ call' = NoCall
    /\ cv' = NoCv
    /\ hist' = [hist EXCEPT !.searched = Append(@, cv.best_C),
                            !.tried = <<>>, !.lastWithScore = {}, !.tie = FALSE]
    /\ UNCHANGED <<scenario, null_class_idx, nr_classes>>
----------------------------------------------------------------------------
(* score and predict *)

\* a slip that selects the columns with the mask of the test labels
ColumnsOfTest(k, cy) == [i \in DOMAIN cy |-> cy[i] = k - 1 \/ cy[i] = null_class_idx]

\* lines 123, 203 and 213: the columns of Kyx are those of the mask stored at fit
\* (the k-th of the list, or the one mask of the multiclass scenario)
Columns(k, cy) == cx_idxs[k]

\* lines 109-134
score_one_vs_rest(cy) ==
    LET n == nr_classes - 1
    IN IF "nr_classes" \notin attrs
         THEN ret' = Raised("score", "AttributeError", "nr_classes")
       ELSE IF n < 0
         THEN ret' = Raised("score", "ValueError", "negative dimensions")
       ELSE IF \E ii \in 0..(n - 1) : ii + 1 > Len(cx_idxs) \/ ii + 1 > Len(clf)
         THEN ret' = Raised("score", "IndexError", "")
       ELSE IF \E ii \in 0..(n - 1) : ~clf[ii + 1].fitted
         THEN ret' = Raised("score", "NotFitted", "")
       ELSE ret' = [Returned("score") EXCEPT
                      !.arg = cy,
                      !.rows = [k \in 1..n |-> GoodIdxs(cy, k - 1)],
                      !.cols = [k \in 1..n |-> Columns(k, cy)],
                      !.y_true = [k \in 1..n |->
                                    [j \in DOMAIN Take(cy, GoodIdxs(cy, k - 1)) |->
                                       IF Take(cy, GoodIdxs(cy, k - 1))[j] = k - 1
                                         THEN 1 ELSE -1]]]

\* a slip that keeps every row
AllRows(cy) == [i \in DOMAIN cy |-> TRUE]

\* lines 202 and 212: the rows of Kyx that the multiclass scenario keeps
TestRows(cy) == [i \in DOMAIN cy |-> cy[i] # null_class_idx]

\* lines 200-204
score_one_vs_one(cy) ==
    IF "clf" \notin attrs \/ "cx_idxs" \notin attrs
      THEN ret' = Raised("score", "AttributeError", "")
    ELSE IF ~clf[1].fitted
      THEN ret' = Raised("score", "NotFitted", "")
    ELSE ret' = [Returned("score") EXCEPT
                   !.arg = cy, !.rows = <<TestRows(cy)>>, !.cols = <<Columns(1, cy)>>,
                   !.y_true = Take(cy, TestRows(cy)),
                   !.n_pred = Cardinality(nonzero(TestRows(cy)))]

\* lines 206-214
predict_one_vs_one(cy) ==
    IF "clf" \notin attrs \/ "cx_idxs" \notin attrs
      THEN ret' = Raised("predict", "AttributeError", "")
    ELSE IF ~clf[1].fitted
      THEN ret' = Raised("predict", "NotFitted", "")
    ELSE ret' = [Returned("predict") EXCEPT
                   !.arg = cy, !.rows = <<TestRows(cy)>>, !.cols = <<Columns(1, cy)>>,
                   !.y_true = Take(cy, TestRows(cy)),
                   !.n_pred = Cardinality(nonzero(TestRows(cy)))]

\* lines 35-42
score(cy) ==
    /\ pc = "idle"
    /\ CASE scenario = "multiclass" -> score_one_vs_one(cy)
         [] scenario = "versus_null" -> score_one_vs_rest(cy)
         [] scenario = "per_slice" ->
              ret' = [Returned("score") EXCEPT !.y_true = cy]
         [] OTHER -> ret' = Returned("score")
    /\ UNCHANGED <<pc, scenario, null_class_idx, attrs, nr_classes, clf, cx_idxs,
                   call, cv, hist>>

\* lines 44-48
predict(cy) ==
    /\ pc = "idle"
    /\ IF scenario = "multiclass"
         THEN predict_one_vs_one(cy)
         ELSE ret' = Returned("predict")
    /\ UNCHANGED <<pc, scenario, null_class_idx, attrs, nr_classes, clf, cx_idxs,
                   call, cv, hist>>

----------------------------------------------------------------------------
(* The searches called on their own, once, as a test of them does: on an      *)
(* evaluator whose bank holds one new classifier, which is the state a fit    *)
(* that failed its precondition leaves (fit(<<0, 1>>) for versus_null,        *)
(* fit(<<0>>) for multiclass); pc = "harness" marks it.                       *)

AfterFailedFit(s) ==
    /\ scenario = s
    /\ null_class_idx = NullClassIdx
    /\ call = NoCall
    /\ cv = NoCv
    /\ IF s = "versus_null"
         THEN /\ attrs = {"nr_classes", "clf", "cx_idxs"}
              /\ nr_classes = 2
              /\ clf = <<NewSVC(TRUE)>>
              /\ cx_idxs = <<<<TRUE, FALSE>>>>
              /\ ret = Raised("fit", "AssertionError", "Number of classes is not two.")
              /\ hist = [NoHist EXCEPT !.fit_cx = <<0, 1>>, !.entered = TRUE,
                                       !.M = 1, !.N = 1, !.cc = <<1>>]
         ELSE /\ attrs = {"clf"}
              /\ nr_classes = 0
              /\ clf = <<NewSVC(FALSE)>>
              /\ cx_idxs = <<>>
              /\ ret = Raised("fit", "AssertionError",
                              "Number of classes is less than two.")
              /\ hist = [NoHist EXCEPT !.fit_cx = <<0>>, !.entered = TRUE,
                                       !.M = 1, !.N = 1, !.cc = <<0>>]

InitHarness ==
    /\ pc = "harness"
    /\ \/ AfterFailedFit("versus_null")
       \/ AfterFailedFit("multiclass")

Identity(n) == [i \in 1..n |-> i]

\* _crossvalidate_C_one_vs_rest(K, cc, idx_clf) with K of shape (M, N)
crossvalidate_C_one_vs_rest(M, N, cc, idx_clf) ==
    /\ pc = "harness"
    /\ scenario = "versus_null"
    /\ "clf" \in attrs
    /\ idx_clf < Len(clf)
    /\ enter_one_vs_rest("_crossvalidate_C_one_vs_rest", "direct", M, N, cc, idx_clf,
                         Identity(Len(cc)))
    /\ hist' = Entered(NoHist, M, N, cc)
    /\ UNCHANGED <<scenario, null_class_idx, attrs, nr_classes, clf, cx_idxs, call>>

\* _crossvalidate_C_one_vs_one(K, cc) with K of shape (M, N)
crossvalidate_C_one_vs_one(M, N, cc) ==
    /\ pc = "harness"
    /\ scenario = "multiclass"
    /\ "clf" \in attrs
    /\ enter_one_vs_one("_crossvalidate_C_one_vs_one", "direct", M, N, cc,
                        Identity(Len(cc)))
    /\ hist' = Entered(NoHist, M, N, cc)
    /\ UNCHANGED <<scenario, null_class_idx, attrs, nr_classes, clf, cx_idxs, call>>

\* lines 183 and 252: return best_C
crossvalidate_C_return ==
    /\ pc \in {"cv_one_vs_rest", "cv_one_vs_one"}
    /\ cv.log3c = log3c_stop
    /\ cv.caller = "direct"
    /\ pc' = "idle"
    /\ ret' = [Returned(ret.op) EXCEPT !.C = cv.best_C]
    /\ cv' = NoCv
    /\ hist' = [hist EXCEPT !.searched = <<cv.best_C>>]
    /\ UNCHANGED <<scenario, null_class_idx, attrs, nr_classes, clf, cx_idxs, call>>

----------------------------------------------------------------------------
(* Specifications *)

\* training sets in which every class keeps two samples or more, so that both
\* subsets of every split hold both classes, and one with two classes and the
\* null class in between
BalancedVectors ==
    {<<0, 0, NullClassIdx, NullClassIdx>>, <<NullClassIdx, 0, NullClassIdx, 0>>,
     <<0, 0, 1, 1, NullClassIdx, NullClassIdx>>, <<0, NullClassIdx, 1>>}

TrainVectors == (SeqsUpTo(TrainLabels, MaxN) \ {<<>>}) \cup BalancedVectors

TestVectors == SeqsUpTo(TestLabels, MaxTest)

CcLabels == {-1, 1, 2}

\* K is n x n, n x (n+1) or (n+1) x n for n labels
Skew == {<<0, 0>>, <<0, 1>>, <<1, 0>>}

UseScores == {0}

\* labels with a gap: class 1 is missing when 0, 2 and null are there
GapLabels == {0, 2, NullClassIdx}

GapVectors == (SeqsUpTo(GapLabels, MaxN) \ {<<>>}) \cup {<<0, NullClassIdx, 2>>}

BinaryLabels == {-1, 1}

SliceVectors == SeqsUpTo(BinaryLabels, MaxSlice) \cup SeqsUpTo(CcLabels, MaxCc)

\* construction and fitting
Next ==
    \/ \E s \in ScenarioNames : init(s)
    \/ \E cx \in TrainVectors : fit(cx)
    \/ fit_one_vs_rest_iter
    \/ \E sc \in FitScores : try_one_vs_rest(sc)
    \/ finish_one_vs_rest
    \/ \E sc \in FitScores : try_one_vs_one(sc)
    \/ finish_one_vs_one

Spec == Init /\ [][Next]_vars

\* construction, fitting, scoring and predicting
NextUse ==
    \/ \E s \in ScenarioNames : init(s)
    \/ \E cx \in TrainVectors : fit(cx)
    \/ fit_one_vs_rest_iter
    \/ \E sc \in UseScores : try_one_vs_rest(sc)
    \/ finish_one_vs_rest
    \/ \E sc \in UseScores : try_one_vs_one(sc)
    \/ finish_one_vs_one
    \/ \E cy \in TestVectors : score(cy)
    \/ \E cy \in TestVectors : predict(cy)

SpecUse == Init /\ [][NextUse]_vars

\* fitting on labels with a gap, and the two searches on their own on larger slices
NextCV ==
    \/ \E s \in ScenarioNames : init(s)
    \/ \E cx \in GapVectors : fit(cx)
    \/ fit_one_vs_rest_iter
    \/ finish_one_vs_rest
    \/ finish_one_vs_one
    \/ \E cc \in SliceVectors, d \in Skew, idx_clf \in 0..(Len(clf) - 1) :
          crossvalidate_C_one_vs_rest(Len(cc) + d[1], Len(cc) + d[2], cc, idx_clf)
    \/ \E cc \in SliceVectors, d \in Skew :
          crossvalidate_C_one_vs_one(Len(cc) + d[1], Len(cc) + d[2], cc)
    \/ \E sc \in UseScores : try_one_vs_rest(sc)
    \/ \E sc \in UseScores : try_one_vs_one(sc)
    \/ crossvalidate_C_return

SpecCV == (Init \/ InitHarness) /\ [][NextCV]_vars
----------------------------------------------------------------------------
(* Claims about construction and fitting, checked under Spec *)

FitEnded == pc = "idle" /\ ret.op = "fit"

FitDone == FitEnded /\ ret.status = "ok"

Distinct(cx) == Cardinality(Range(cx))

NonNull(cx) == {i \in DOMAIN cx : cx[i] # NullClassIdx}

ClassOrNull(cx, i) == {p \in DOMAIN cx : cx[p] = i \/ cx[p] = NullClassIdx}

MaskOf(cx, S) == [p \in DOMAIN cx |-> p \in S]

\* C1: the scenario names an Evaluator can be constructed with are exactly
\* multiclass, versus_null and per_slice: the constructor accepts each of the
\* three, and fit never returns normally for any other name.
C1_ThreeScenariosConstructible ==
    /\ (scenario \in {"multiclass", "versus_null", "per_slice"} => pc # "init_failed")
    /\ (FitDone => scenario \in {"multiclass", "versus_null", "per_slice"})

\* C2 as stated: after a versus_null fit completes on any label vector there are
\* nr_classes - 1 masks and as many classifiers, nr_classes being the number of
\* distinct labels, there is one mask per non-null class, and mask i is true
\* exactly on the samples labelled i or null.
C2_MasksAnyLabels ==
    (FitDone /\ scenario = "versus_null") =>
        /\ nr_classes = Distinct(hist.fit_cx)
        /\ Len(cx_idxs) = nr_classes - 1
        /\ Len(clf) = nr_classes - 1
        /\ Len(cx_idxs) = Cardinality({hist.fit_cx[p] : p \in NonNull(hist.fit_cx)})
        /\ \A i \in 0..(nr_classes - 2) :
             /\ cx_idxs[i + 1] = MaskOf(hist.fit_cx, ClassOrNull(hist.fit_cx, i))
             /\ Cardinality(nonzero(cx_idxs[i + 1])) =
                  CountOf(hist.fit_cx, i) + CountOf(hist.fit_cx, NullClassIdx)

\* C2 as amended: after a versus_null fit completes on a label vector that is not
\* empty there are nr_classes - 1 masks and as many classifiers, mask i is true
\* exactly on the samples labelled i or null, and
\* when there are two distinct labels or more the labels are 0..nr_classes-2 and
\* null, one mask per non-null class; on a single distinct label the fit stores no
\* mask at all, also when that label is a non-null class.
C2_Masks ==
    (FitDone /\ scenario = "versus_null") =>
        /\ nr_classes = Distinct(hist.fit_cx)
        /\ Len(cx_idxs) = Len(clf)
        /\ Len(cx_idxs) = nr_classes - 1
        /\ nr_classes >= 2 =>
             Range(hist.fit_cx) = 0..(nr_classes - 2) \cup {NullClassIdx}
        /\ \A i \in 0..(nr_classes - 2) :
             /\ cx_idxs[i + 1] = MaskOf(hist.fit_cx, ClassOrNull(hist.fit_cx, i))
             /\ Cardinality(nonzero(cx_idxs[i + 1])) =
                  CountOf(hist.fit_cx, i) + CountOf(hist.fit_cx, NullClassIdx)

C2_Witness ==
    /\ FitDone /\ scenario = "versus_null"
    /\ Len(cx_idxs) = 2
    /\ Cardinality(nonzero(cx_idxs[1])) = 4

\* C3: in the one-vs-null fit the weights of the final fit of class i give every
\* +1 sample the number of null samples of the whole training set and every -1
\* sample the weight 1.
C3_PositiveWeights ==
    (FitDone /\ scenario = "versus_null") =>
        \A k \in DOMAIN clf :
            /\ clf[k].weighted
            /\ \A x \in clf[k].X :
                 clf[k].sample_weight[x] =
                    IF hist.fit_cx[x] = k - 1
                      THEN CountOf(hist.fit_cx, NullClassIdx) ELSE 1

PlusMinus(l) == IF l # NullClassIdx THEN 1 ELSE -1

\* what a classifier holds when its last fit was on the samples S of cx, with the
\* labels as they are or relabelled +1 / -1
FittedOn(c, S, cx, relabelled) ==
    /\ c.fitted
    /\ c.X = S
    /\ c.y = [x \in S |-> IF relabelled THEN PlusMinus(cx[x]) ELSE cx[x]]

FromFit(cx, complete) ==
    CASE scenario = "versus_null" ->
           /\ nr_classes = Distinct(cx)
           /\ Len(cx_idxs) = Len(clf)
           /\ \A k \in DOMAIN cx_idxs :
                cx_idxs[k] = MaskOf(cx, ClassOrNull(cx, k - 1))
           /\ \A k \in DOMAIN clf :
                \/ FittedOn(clf[k], ClassOrNull(cx, k - 1), cx, TRUE)
                \/ ~complete /\ clf[k] = NewSVC(TRUE)
      [] scenario = "multiclass" ->
           /\ "nr_classes" \notin attrs
           /\ Len(clf) = 1
           /\ \/ /\ FittedOn(clf[1], NonNull(cx), cx, FALSE)
                 /\ cx_idxs = <<MaskOf(cx, NonNull(cx))>>
              \/ /\ ~complete /\ clf[1] = NewSVC(FALSE)
                 /\ "cx_idxs" \in attrs => cx_idxs = <<MaskOf(cx, NonNull(cx))>>
      [] OTHER -> TRUE

\* C6 as stated: after any sequence of fit calls the bank, the masks and
\* nr_classes are those derived from the inputs of the most recent fit.
C6_LastFitAnyOutcome == FitEnded => FromFit(hist.fit_cx, FALSE)

\* C6 as amended: after any sequence of fit calls the last of which returned
\* normally, the bank, the masks and nr_classes (which the multiclass scenario
\* never sets) are those derived from the inputs of that fit and nothing of an
\* earlier fit survives; a multiclass fit that fails its precondition leaves a
\* new unfitted classifier beside the mask of the fit before.
C6_LastFit ==
    /\ FitDone => FromFit(hist.fit_cx, TRUE)
    /\ (FitEnded /\ ret.status # "ok" /\ scenario = "multiclass") =>
           clf = <<NewSVC(FALSE)>>

C6_Witness ==
    /\ FitDone /\ scenario = "versus_null"
    /\ hist.refit
    /\ hist.prev_masks = 2
    /\ Len(cx_idxs) = 1

\* C9: the search leaves the classifier's C at the last candidate (3^7) and the
\* classifier fitted on the training split, and every fit that completes ends
\* with each classifier's C equal to the value its own search returned and the
\* classifier fitted on the whole slice (class i or null; non-null), not the split.
C9_RefitWithChosenC ==
    /\ (pc \in {"cv_one_vs_rest", "cv_one_vs_one"} /\ cv.log3c = log3c_stop) =>
          LET c == clf[cv.idx_clf + 1]
          IN /\ c.C = 9 * 3 ^ 7
             /\ c.fitted
             /\ c.X = {cv.rows[i] : i \in cv.tr_idxs}
             /\ Cardinality(c.X) < Len(cv.rows)
    /\ FitDone =>
          /\ scenario \in {"versus_null", "multiclass"} =>
                Len(hist.searched) = Len(clf)
          /\ \A k \in DOMAIN clf :
                /\ clf[k].C = hist.searched[k]
                /\ clf[k].fitted
                /\ scenario = "versus_null" =>
                      clf[k].X = ClassOrNull(hist.fit_cx, k - 1)
                /\ scenario = "multiclass" => clf[k].X = NonNull(hist.fit_cx)

C9_Witness ==
    /\ FitDone /\ scenario = "versus_null"
    /\ Len(clf) = 2
    /\ clf[1].C = 1
    /\ clf[2].C = 27
    /\ Cardinality(clf[1].X) = 4
\* the candidate that a search over these scores has to return: the last one
\* that reached the highest score
LastBest(seen) ==
    LET top == CHOOSE v \in {p[1] : p \in seen} : \A q \in seen : q[1] <= v
    IN (CHOOSE p \in seen : p[1] = top)[2]

\* C4: both searches try the ten candidates C = 3^k, k = -2..7, in ascending
\* order (held in ninths: 1, 3, .., 19683), and return the largest candidate
\* whose held-out score equals the highest score: of equal candidates the later.
C4_LastOfTheBest ==
    (pc \in {"cv_one_vs_rest", "cv_one_vs_one"}) =>
        /\ hist.tried = [k \in 1..Len(hist.tried) |-> 3 ^ (k - 1)]
        /\ cv.log3c = -2 + Len(hist.tried)
        /\ hist.tried # <<>> => cv.best_C = 3 ^ (LastBest(hist.lastWithScore) + 2)
        /\ cv.log3c = log3c_stop => Len(hist.tried) = 10

C4_Witness ==
    /\ pc = "cv_one_vs_one"
    /\ cv.log3c = log3c_stop
    /\ hist.tie
    /\ cv.best_score = 1
    /\ cv.best_C = 9 * 3
    /\ <<0, 7>> \in hist.lastWithScore

----------------------------------------------------------------------------
(* Claims about scoring and predicting, checked under SpecUse *)

CallDone(op) == pc = "idle" /\ ret.op = op /\ ret.status = "ok"

\* C5: in the multiclass scenario the null samples take no part: the search and
\* the fit get the rows and columns of the non-null training samples only, score
\* and predict keep the non-null test rows and the columns of the non-null
\* training samples stored at fit, and predict returns as many true and
\* predicted labels as there are non-null test samples.
C5_NullExcluded ==
    scenario = "multiclass" =>
        /\ pc = "cv_one_vs_one" =>
              /\ Range(cv.rows) = NonNull(hist.fit_cx)
              /\ \A j \in DOMAIN cv.cc : cv.cc[j] = hist.fit_cx[cv.rows[j]]
              /\ clf[1].X \subseteq NonNull(hist.fit_cx)
        /\ FitDone =>
              /\ clf[1].X = NonNull(hist.fit_cx)
              /\ cx_idxs = <<MaskOf(hist.fit_cx, NonNull(hist.fit_cx))>>
        /\ (CallDone("score") \/ CallDone("predict")) =>
              /\ ret.rows = <<MaskOf(ret.arg, NonNull(ret.arg))>>
              /\ ret.cols = <<MaskOf(hist.fit_cx, NonNull(hist.fit_cx))>>
              /\ ret.n_pred = Cardinality(NonNull(ret.arg))
              /\ Len(ret.y_true) = Cardinality(NonNull(ret.arg))
              /\ \A j \in DOMAIN ret.y_true : ret.y_true[j] # NullClassIdx

C5_Witness ==
    /\ scenario = "multiclass"
    /\ CallDone("predict")
    /\ Len(ret.arg) = 2
    /\ ret.n_pred = 1
    /\ hist.fit_cx = <<0, 15, 1>>

\* C7: score and predict leave the stored masks, the bank with each classifier's
\* C, nr_classes, the scenario and the null-class index as the fit left them, and
\* the columns they select are the masks computed at fit.
C7_ScoreReadsOnly ==
    [][(pc = "idle" /\ pc' = "idle" /\ ret'.op \in {"score", "predict"}) =>
          /\ UNCHANGED <<cx_idxs, clf, nr_classes, scenario, null_class_idx, attrs>>
          /\ (ret'.status = "ok" /\ ret'.cols # <<>>) =>
                /\ ret'.cols = cx_idxs
                /\ scenario = "versus_null" =>
                      \A k \in DOMAIN cx_idxs :
                         ret'.cols[k] = MaskOf(hist.fit_cx, ClassOrNull(hist.fit_cx, k - 1))
                /\ scenario = "multiclass" =>
                      ret'.cols[1] = MaskOf(hist.fit_cx, NonNull(hist.fit_cx))]_vars

C7_Witness ==
    /\ scenario = "versus_null"
    /\ CallDone("score")
    /\ Len(ret.cols) = 2
    /\ ret.cols[1] = <<TRUE, TRUE, FALSE, FALSE, TRUE, TRUE>>
    /\ ret.arg = <<1, 15>>

----------------------------------------------------------------------------
(* Claims about the split and the preconditions, checked under SpecCV *)

InClass(S, cc, c) == {i \in S : cc[i] = c}

\* the least whole number that is at least three tenths of n
ThreeTenthsUp(n) == CHOOSE P \in 0..n : 10 * P >= 3 * n /\ 10 * (P - 1) < 3 * n

SplitIsPartition ==
    /\ cv.cv_idxs \cap cv.tr_idxs = {}
    /\ cv.cv_idxs \cup cv.tr_idxs = DOMAIN cv.cc
    /\ \A c \in Range(cv.cc) :
         Cardinality(InClass(cv.cv_idxs, cv.cc, c)) =
            ThreeTenthsUp(Cardinality(InClass(DOMAIN cv.cc, cv.cc, c)))

\* C8 as stated: in the binary split the two subsets are disjoint, cover the slice,
\* the cross-validation subset holds ceil(0.3 n_c) samples of each class c, and
\* each class has a sample in both subsets whatever its count n_c >= 1.
C8_BothSubsetsAnyCount ==
    pc = "cv_one_vs_rest" =>
        /\ SplitIsPartition
        /\ \A c \in Range(cv.cc) :
             /\ InClass(cv.cv_idxs, cv.cc, c) # {}
             /\ InClass(cv.tr_idxs, cv.cc, c) # {}

\* C8 as amended: the two subsets are disjoint, cover the slice, the
\* cross-validation subset holds ceil(0.3 n_c) samples of each class c, every
\* class has a sample in the cross-validation subset, and a class has a sample in
\* the training subset exactly when it has two samples or more: the one sample
\* of a class of one is held out.
C8_BothSubsets ==
    pc = "cv_one_vs_rest" =>
        /\ SplitIsPartition
        /\ \A c \in Range(cv.cc) :
             /\ InClass(cv.cv_idxs, cv.cc, c) # {}
             /\ InClass(cv.tr_idxs, cv.cc, c) # {}
                   <=> Cardinality(InClass(DOMAIN cv.cc, cv.cc, c)) >= 2

C8_Witness ==
    /\ pc = "cv_one_vs_rest"
    /\ cv.cc = <<1, -1, 1, 1, 1>>
    /\ cv.cv_idxs = {2, 4, 5}
    /\ cv.tr_idxs = {1, 3}

BinaryEntry ==
    \/ pc = "ovr_loop" /\ call.ii < nr_classes - 1
    \/ pc = "harness" /\ ret'.op = "_crossvalidate_C_one_vs_rest"

SameOrNew(before, after) ==
    /\ \A k \in DOMAIN before \cap DOMAIN after : after[k] = before[k]
    /\ \A k \in DOMAIN after \ DOMAIN before : ~after[k].fitted

MissingClass(cx) ==
    \E i \in 0..(Distinct(cx) - 2) :
        CountOf(cx, i) = 0 \/ CountOf(cx, NullClassIdx) = 0

====
